---- MODULE Spec2Model ----
(***************************************************************************)
(* Model of src/src/index.js: the ClashApi client.                         *)
(*                                                                         *)
(* JavaScript values are tagged records: [t |-> "undefined"],              *)
(* [t |-> "string", v |-> s], [t |-> "number", v |-> digits],              *)
(* [t |-> "boolean", v |-> "true" | "false"] and, for a plain object,      *)
(* [t |-> "object", m |-> f] with f a function from property names to      *)
(* values.  Text that is processed character by character (tags, location  *)
(* ids) is a sequence of one-character strings; Join turns it into a       *)
(* string.                                                                 *)
(***************************************************************************)
EXTENDS Integers, Sequences, FiniteSets, TLC

VARIABLES
    env,          \* process.env.COC_API_TOKEN, a value (Undefined when unset)
    client,       \* the constructed ClashApi instance, or NoClient
    thrown,       \* the exception the last call threw, or "none"
    requests,     \* the option objects handed to the transport, in call order
    invocations,  \* number of request-issuing method invocations so far
    builders,     \* the clan-search builders made by clans(): each holds its own qs
    lastCall,     \* the last operation invoked and its arguments
    returned      \* what the last call returned

vars == <<env, client, thrown, requests, invocations, builders, lastCall, returned>>

\* ------------------------------------------------------------------ bounds

MaxCalls == 2
MaxBuilders == 2
MaxSetterCalls == 2

\* ------------------------------------------------------------- JS values

Undefined == [t |-> "undefined"]
Str(s) == [t |-> "string", v |-> s]
Num(s) == [t |-> "number", v |-> s]
Bool(s) == [t |-> "boolean", v |-> s]
Obj(f) == [t |-> "object", m |-> f]

EmptyMap == [k \in {} |-> Undefined]

\* a one-property and a two-property object literal
Map1(k, x) == [p \in {k} |-> x]
Map2(k1, x1, k2, x2) == [p \in {k1, k2} |-> IF p = k1 THEN x1 ELSE x2]

\* ToBoolean, as used by || and !
Truthy(x) ==
    CASE x.t = "undefined" -> FALSE
      [] x.t = "string" -> x.v # ""
      [] x.t = "number" -> x.v # "0"
      [] x.t = "boolean" -> x.v = "true"
      [] OTHER -> TRUE

\* a || b
Or(a, b) == IF Truthy(a) THEN a ELSE b

\* ToString, as applied by a template literal `${x}`
TemplateString(x) ==
    CASE x.t = "undefined" -> "undefined"
      [] x.t = "object" -> "[object Object]"
      [] OTHER -> x.v

RECURSIVE Join(_)
Join(s) == IF s = <<>> THEN "" ELSE Head(s) \o Join(Tail(s))

\* ------------------------------------------------- encodeURIComponent

Unreserved ==
    {"A","B","C","D","E","F","G","H","I","J","K","L","M",
     "N","O","P","Q","R","S","T","U","V","W","X","Y","Z",
     "a","b","c","d","e","f","g","h","i","j","k","l","m",
     "n","o","p","q","r","s","t","u","v","w","x","y","z",
     "0","1","2","3","4","5","6","7","8","9",
     "-","_",".","!","~","*","'","(",")"}

\* the escapes of the other ASCII characters the model's inputs use
PercentCode ==
    [c \in {"#", " ", "/", "%", "?", "&", "=", "+", ":"} |->
        CASE c = "#" -> <<"%","2","3">>
          [] c = " " -> <<"%","2","0">>
          [] c = "/" -> <<"%","2","F">>
          [] c = "%" -> <<"%","2","5">>
          [] c = "?" -> <<"%","3","F">>
          [] c = "&" -> <<"%","2","6">>
          [] c = "=" -> <<"%","3","D">>
          [] c = "+" -> <<"%","2","B">>
          [] c = ":" -> <<"%","3","A">>]

\* faulty variant: the tag is substituted unencoded
encodeRaw(s) == s

RECURSIVE encodeURIComponent(_)
encodeURIComponent(s) ==
    IF s = <<>> THEN <<>>
    ELSE (IF Head(s) \in Unreserved THEN <<Head(s)>> ELSE PercentCode[Head(s)])
         \o encodeURIComponent(Tail(s))

\* --------------------------------------------------------- lodash merge

\* merge(object, source): recursive for plain objects; a source property
\* that is undefined does not overwrite an existing one; a plain object
\* merged over a non-object is cloned.
RECURSIVE baseMerge(_, _)
baseMerge(object, source) ==
    [k \in DOMAIN object \cup DOMAIN source |->
        IF k \notin DOMAIN source THEN object[k]
        ELSE LET srcValue == source[k] IN
             IF srcValue.t = "object"
             THEN IF k \in DOMAIN object /\ object[k].t = "object"
                  THEN Obj(baseMerge(object[k].m, srcValue.m))
                  ELSE Obj(baseMerge(EmptyMap, srcValue.m))
             ELSE IF srcValue.t = "undefined" /\ k \in DOMAIN object
                  THEN object[k]
                  ELSE srcValue]

\* faulty variant: the per-call options are merged after the defaults
mergeCallLast(object, source1, source2) == baseMerge(baseMerge(object, source2), source1)

\* merge(object, source1, source2)
merge(object, source1, source2) == baseMerge(baseMerge(object, source1), source2)

\* ------------------------------------------------------------ the client

NoClient == [t |-> "none"]

\* config.uri of ../config
config_uri == Str("https://api.clashofclans.com/v1")

\* a completion: the value a call returns, or the error it throws
Return(x) == [threw |-> "none", value |-> x]
Throw(e) == [threw |-> e, value |-> Undefined]

\* faulty variant: the token check is left out
constructorNoCheck(uri, token, request, envToken) ==
    Return([t |-> "ClashApi",
            token |-> Or(token, envToken),
            uri |-> Or(uri, config_uri),
            requestDefaults |-> (Or(request, Obj(EmptyMap))).m])

\* faulty variant: the environment variable is preferred to the argument
constructorEnvFirst(uri, token, request, envToken) ==
    LET tok == Or(envToken, token) IN
    IF ~Truthy(tok) THEN Throw("Error")
    ELSE Return([t |-> "ClashApi",
                 token |-> tok,
                 uri |-> Or(uri, config_uri),
                 requestDefaults |-> (Or(request, Obj(EmptyMap))).m])

\* new ClashApi({uri, token, request}) with process.env.COC_API_TOKEN = envToken
constructor(uri, token, request, envToken) ==
    LET tok == Or(token, envToken) IN
    IF ~Truthy(tok) THEN Throw("Error")
    ELSE Return([t |-> "ClashApi",
                 token |-> tok,
                 uri |-> Or(uri, config_uri),
                 requestDefaults |-> (Or(request, Obj(EmptyMap))).m])

\* the fixed template of requestOptions
baseTemplate(self) ==
    Map2("headers", Obj(Map2("Accept", Str("application/json"),
                             "authorization", Str("Bearer " \o TemplateString(self.token)))),
         "json", Bool("true"))

\* self.requestOptions(opts)
requestOptions(self, opts) == merge(baseTemplate(self), opts, self.requestDefaults)

\* faulty variant: a request equal to an earlier one is not issued again
requestCached(options) ==
    IF \E i \in DOMAIN requests : requests[i] = options THEN requests
    ELSE Append(requests, options)

\* request(options): the transport is handed the options; nothing is cached
request(options) == Append(requests, options)

\* `${this.uri}<before>${encodeURIComponent(tag)}<after>`
TagUri(self, before, tag, after) ==
    Str(TemplateString(self.uri) \o before \o Join(encodeURIComponent(tag)) \o after)

\* the options each direct method hands to request()
clanByTag(self, tag) == requestOptions(self, Map1("uri", TagUri(self, "/clans/", tag, "")))
clanMembersByTag(self, tag) ==
    requestOptions(self, Map1("uri", TagUri(self, "/clans/", tag, "/members")))
clanWarlogByTag(self, tag) ==
    requestOptions(self, Map1("uri", TagUri(self, "/clans/", tag, "/warlog")))
clanCurrentWarByTag(self, tag) ==
    requestOptions(self, Map1("uri", TagUri(self, "/clans/", tag, "/currentwar")))
clanLeague(self, tag) ==
    requestOptions(self, Map1("uri", TagUri(self, "/clans/", tag, "/currentwar/leaguegroup")))
clanLeagueWars(self, tag) ==
    requestOptions(self, Map1("uri", TagUri(self, "/clanwarleagues/wars/", tag, "")))
playerByTag(self, tag) == requestOptions(self, Map1("uri", TagUri(self, "/players/", tag, "")))
leagues(self) ==
    requestOptions(self, Map1("uri", Str(TemplateString(self.uri) \o "/leagues")))


\* ---------------------------------------------- the clan-search builder

Lower == <<"a","b","c","d","e","f","g","h","i","j","k","l","m",
           "n","o","p","q","r","s","t","u","v","w","x","y","z">>
Upper == <<"A","B","C","D","E","F","G","H","I","J","K","L","M",
           "N","O","P","Q","R","S","T","U","V","W","X","Y","Z">>

\* c.toUpperCase() for one ASCII character
toUpperCase(c) ==
    IF \E i \in DOMAIN Lower : Lower[i] = c
    THEN Upper[CHOOSE i \in DOMAIN Lower : Lower[i] = c]
    ELSE c

\* string.charAt(0).toUpperCase() + string.substr(1)
capitalizeFirstLetter(string) ==
    IF string = <<>> THEN <<>> ELSE <<toUpperCase(Head(string))>> \o Tail(string)

\* the field list clans() reduces over
ClanFields ==
    << <<"n","a","m","e">>,
       <<"w","a","r","F","r","e","q","u","e","n","c","y">>,
       <<"l","o","c","a","t","i","o","n","I","d">>,
       <<"m","i","n","M","e","m","b","e","r","s">>,
       <<"m","a","x","M","e","m","b","e","r","s">>,
       <<"m","i","n","C","l","a","n","P","o","i","n","t","s">>,
       <<"m","i","n","C","l","a","n","L","e","v","e","l">>,
       <<"l","i","m","i","t">>,
       <<"a","f","t","e","r">>,
       <<"b","e","f","o","r","e">> >>

\* `with${capitalizeFirstLetter(field)}`
setterName(field) == "with" \o Join(capitalizeFirstLetter(field))

\* the setters of the builder: method name -> the qs key it writes
dslSetters ==
    [n \in {setterName(ClanFields[i]) : i \in DOMAIN ClanFields} |->
        Join(ClanFields[CHOOSE i \in DOMAIN ClanFields : setterName(ClanFields[i]) = n])]

\* faulty variant: the first write to a field wins
assignFirstOnly(qs, field, input) ==
    IF field \in DOMAIN qs THEN qs
    ELSE [p \in DOMAIN qs \cup {field} |-> IF p = field THEN input ELSE qs[p]]

\* qs[field] = input
assignField(qs, field, input) ==
    [p \in DOMAIN qs \cup {field} |-> IF p = field THEN input ELSE qs[p]]

\* faulty variant: the new builder starts from the previous builder's qs
clansSharedQs(bs) ==
    Append(bs, [qs |-> IF bs = <<>> THEN EmptyMap ELSE bs[Len(bs)].qs, calls |-> <<>>])

\* clans(): a new builder over a fresh qs (calls: the calls made on it so far)
clans(bs) == Append(bs, [qs |-> EmptyMap, calls |-> <<>>])

\* the options the builder's fetch hands to request()
clansFetch(self, qs) ==
    requestOptions(self, Map2("qs", Obj(qs),
                              "uri", Str(TemplateString(self.uri) \o "/clans")))

\* ------------------------------------------------- the location builder

\* the bindings the module imports (lines 1-3)
Imports == {"request", "config", "merge"}

\* the options locations().fetch() hands to request()
locationsFetch(self) ==
    requestOptions(self, Map1("uri", Str(TemplateString(self.uri) \o "/locations")))

\* locations().withId(locId): builds rankingDslMembers, then calls assign(...)
withId(self, locId) ==
    IF "assign" \notin Imports THEN Throw("ReferenceError")
    ELSE Return([locId |-> locId, rankId |-> Undefined])

\* byClan() / byPlayer(): rankId = kind, shared by everything made by one withId
by(locDsl, kind) == [locDsl EXCEPT !.rankId = Str(kind)]

RECURSIVE bySelectors(_, _)
bySelectors(locDsl, sels) ==
    IF sels = <<>> THEN locDsl ELSE bySelectors(by(locDsl, Head(sels)), Tail(sels))

\* rankingDsl.fetch, bound to the client
rankingFetch(self, locDsl) ==
    requestOptions(self, Map1("uri",
        Str(TemplateString(self.uri) \o "/locations/" \o Join(encodeURIComponent(locDsl.locId))
            \o "/rankings/" \o TemplateString(locDsl.rankId))))

\* locDsl.fetch is not bound: this is locDsl, which has no requestOptions
locDslFetch(locDsl) == Throw("TypeError")

\* ---------------------------------------------------------------- state

NoReturn == [kind |-> "none"]

Init ==
    /\ env \in {Undefined, Str(""), Str("tokE")}
    /\ client = NoClient
    /\ thrown = "none"
    /\ requests = <<>>
    /\ invocations = 0
    /\ builders = <<>>
    /\ lastCall = [op |-> "none"]
    /\ returned = NoReturn

\* new ClashApi({uri, token, request}); the model follows one instance
Construct(uri, token, req) ==
    /\ client = NoClient
    /\ LET c == constructor(uri, token, req, env) IN
        /\ client' = IF c.threw = "none" THEN c.value ELSE NoClient
        /\ thrown' = c.threw
        /\ returned' = IF c.threw = "none" THEN [kind |-> "client"] ELSE NoReturn
    /\ lastCall' = [op |-> "constructor", uri |-> uri, token |-> token, request |-> req]
    /\ UNCHANGED <<env, requests, invocations, builders>>

\* client.requestOptions(opts), called directly
RequestOptions(opts) ==
    /\ client # NoClient
    /\ returned' = [kind |-> "options", value |-> requestOptions(client, opts)]
    /\ lastCall' = [op |-> "requestOptions", opts |-> opts]
    /\ thrown' = "none"
    /\ UNCHANGED <<env, client, requests, invocations, builders>>

\* a method whose body is `return request(options)`
Issue(op, arg, options) ==
    /\ client # NoClient
    /\ invocations < MaxCalls
    /\ requests' = request(options)
    /\ invocations' = invocations + 1
    /\ lastCall' = [op |-> op, arg |-> arg]
    /\ returned' = [kind |-> "promise"]
    /\ thrown' = "none"
    /\ UNCHANGED <<env, client>>

ClanByTag(tag) ==
    /\ client # NoClient
    /\ Issue("clanByTag", tag, clanByTag(client, tag))
    /\ UNCHANGED builders
ClanMembersByTag(tag) ==
    /\ client # NoClient
    /\ Issue("clanMembersByTag", tag, clanMembersByTag(client, tag))
    /\ UNCHANGED builders
ClanWarlogByTag(tag) ==
    /\ client # NoClient
    /\ Issue("clanWarlogByTag", tag, clanWarlogByTag(client, tag))
    /\ UNCHANGED builders
ClanCurrentWarByTag(tag) ==
    /\ client # NoClient
    /\ Issue("clanCurrentWarByTag", tag, clanCurrentWarByTag(client, tag))
    /\ UNCHANGED builders
ClanLeague(tag) ==
    /\ client # NoClient
    /\ Issue("clanLeague", tag, clanLeague(client, tag))
    /\ UNCHANGED builders
ClanLeagueWars(tag) ==
    /\ client # NoClient
    /\ Issue("clanLeagueWars", tag, clanLeagueWars(client, tag))
    /\ UNCHANGED builders
PlayerByTag(tag) ==
    /\ client # NoClient
    /\ Issue("playerByTag", tag, playerByTag(client, tag))
    /\ UNCHANGED builders
Leagues ==
    /\ client # NoClient
    /\ Issue("leagues", <<>>, leagues(client))
    /\ UNCHANGED builders


\* client.clans()
Clans ==
    /\ client # NoClient
    /\ Len(builders) < MaxBuilders
    /\ builders' = clans(builders)
    /\ returned' = [kind |-> "builder", ref |-> Len(builders) + 1]
    /\ lastCall' = [op |-> "clans"]
    /\ thrown' = "none"
    /\ UNCHANGED <<env, client, requests, invocations>>

SetterCount(b) == Cardinality({i \in DOMAIN builders[b].calls : builders[b].calls[i][1] # "fetch"})
RECURSIVE SetterTotal(_)
SetterTotal(n) == IF n = 0 THEN 0 ELSE SetterCount(n) + SetterTotal(n - 1)

\* builder.with<Field>(input) on the b-th builder
With(b, method, input) ==
    /\ b \in DOMAIN builders
    /\ method \in DOMAIN dslSetters
    /\ SetterTotal(Len(builders)) < MaxSetterCalls
    /\ builders' = [builders EXCEPT
                      ![b].qs = assignField(@, dslSetters[method], input),
                      ![b].calls = Append(@, <<method, input>>)]
    /\ returned' = [kind |-> "builder", ref |-> b]
    /\ lastCall' = [op |-> "with", builder |-> b, method |-> method, input |-> input]
    /\ thrown' = "none"
    /\ UNCHANGED <<env, client, requests, invocations>>

\* builder.fetch() on the b-th builder
ClansFetch(b) ==
    /\ b \in DOMAIN builders
    /\ client # NoClient
    /\ Issue("clans.fetch", b, clansFetch(client, builders[b].qs))
    /\ builders' = [builders EXCEPT ![b].calls = Append(@, <<"fetch", Undefined>>)]

\* client.locations().fetch()
LocationsFetch ==
    /\ client # NoClient
    /\ Issue("locations.fetch", <<>>, locationsFetch(client))
    /\ UNCHANGED builders

\* r = client.locations().withId(locId); r.by<sels[1]>(); ..; then fetch() on
\* what the last selector returned (on r itself when sels is empty)
LocationChain(locId, sels) ==
    /\ client # NoClient
    /\ invocations < MaxCalls
    /\ lastCall' = [op |-> "locations.withId", locId |-> locId, sels |-> sels]
    /\ LET w == withId(client, locId)
           f == IF sels = <<>> THEN locDslFetch(w.value)
                ELSE Return(rankingFetch(client, bySelectors(w.value, sels)))
           c == IF w.threw # "none" THEN w ELSE f
       IN  /\ thrown' = c.threw
           /\ IF c.threw = "none"
              THEN /\ requests' = request(c.value)
                   /\ invocations' = invocations + 1
                   /\ returned' = [kind |-> "promise"]
              ELSE /\ UNCHANGED <<requests, invocations>>
                   /\ returned' = NoReturn
    /\ UNCHANGED <<env, client, builders>>

\* ------------------------------------------------------------ the inputs

Tags == { <<"#","A","B","C","1","2","3">>, <<"A"," ","/">> }

UriArgs == {Undefined, Str("http://localhost:8080")}
TokenArgs == {Undefined, Str(""), Str("tokA")}

AuthDefault == Obj(Map1("headers", Obj(Map1("authorization", Str("Bearer other")))))
TimeoutDefault == Obj(Map1("timeout", Num("5000")))
UriDefault == Obj(Map1("uri", Str("http://proxy")))
QsDefault == Obj(Map1("qs", Obj(Map1("minMembers", Num("99")))))
RequestArgs == {Undefined, AuthDefault, TimeoutDefault, UriDefault, QsDefault}


\* ================================================================ claims

LastRequest == requests[Len(requests)]
BaseUri == TemplateString(client.uri)
Chars(s) == {s[i] : i \in DOMAIN s}
HashTag == <<"#","A","B","C","1","2","3">>

\* the path templates of the identifier-taking methods: <<before, after>>
PathTemplate ==
    [clanByTag |-> <<"/clans/", "">>,
     clanMembersByTag |-> <<"/clans/", "/members">>,
     clanWarlogByTag |-> <<"/clans/", "/warlog">>,
     clanCurrentWarByTag |-> <<"/clans/", "/currentwar">>,
     clanLeague |-> <<"/clans/", "/currentwar/leaguegroup">>,
     clanLeagueWars |-> <<"/clanwarleagues/wars/", "">>,
     playerByTag |-> <<"/players/", "">>]

DirectOps == DOMAIN PathTemplate \cup {"leagues"}

\* ---- C1

\* C1: a construction with no truthy token argument while COC_API_TOKEN is
\* unset or empty throws and yields no instance; an instance that exists has
\* a non-empty token, and requests and builders only ever come from one.
C1_NoTokenNoClient ==
    /\ (lastCall.op = "constructor" /\ ~Truthy(lastCall.token) /\ ~Truthy(env)
          => thrown = "Error" /\ client = NoClient /\ returned = NoReturn)
    /\ (client # NoClient => Truthy(client.token))
    /\ (invocations > 0 \/ requests # <<>> \/ builders # <<>> => client # NoClient)

\* C1 witness: new ClashApi() with COC_API_TOKEN set to the empty string threw.
C1_Witness ==
    /\ lastCall.op = "constructor"
    /\ lastCall.token = Undefined
    /\ env = Str("")
    /\ thrown = "Error"
    /\ client = NoClient

\* ---- C2

OverridesAuthorization(defaults) ==
    /\ "headers" \in DOMAIN defaults
    /\ defaults["headers"].t = "object"
    /\ "authorization" \in DOMAIN defaults["headers"].m

\* C2: the token is the explicit argument when one is given, else the
\* environment variable (with only the variable set, construction succeeds);
\* unless the request defaults override the authorization header, every
\* request handed to the transport carries 'Bearer <that token>'.
C2_BearerResolvedToken ==
    /\ (lastCall.op = "constructor" /\ Truthy(lastCall.token)
          => thrown = "none" /\ client # NoClient /\ client.token = lastCall.token)
    /\ (lastCall.op = "constructor" /\ ~Truthy(lastCall.token) /\ Truthy(env)
          => thrown = "none" /\ client # NoClient /\ client.token = env)
    /\ (client # NoClient /\ ~OverridesAuthorization(client.requestDefaults) =>
          \A i \in DOMAIN requests :
              /\ requests[i]["headers"].m["authorization"] = Str("Bearer " \o client.token.v)
              /\ (client.token = Str("tokE") =>
                    requests[i]["headers"].m["authorization"] = Str("Bearer tokE")))

\* C2 witness: a client built from the environment variable alone issued a
\* builder fetch and a direct fetch, both carrying 'Bearer tokE'.
C2_Witness ==
    /\ env = Str("tokE")
    /\ client # NoClient
    /\ client.token = Str("tokE")
    /\ Len(requests) = 2
    /\ lastCall.op = "clans.fetch"
    /\ \A i \in DOMAIN requests :
          requests[i]["headers"].m["authorization"] = Str("Bearer tokE")

\* ---- C3

\* the leaf keys of an options object: <<k>> for a plain value, <<k, j>> for
\* a value inside the nested object k
Leaves(m) ==
    {<<k>> : k \in {x \in DOMAIN m : m[x].t # "object"}}
    \cup UNION {{<<k, j>> : j \in DOMAIN m[k].m} : k \in {x \in DOMAIN m : m[x].t = "object"}}

At(m, p) == IF Len(p) = 1 THEN m[p[1]] ELSE m[p[1]].m[p[2]]

\* the base template as section 4.1 gives it
ClaimedTemplate ==
    [headers |-> Obj([Accept |-> Str("application/json"),
                      authorization |-> Str("Bearer " \o client.token.v)]),
     json |-> Bool("true")]

\* C3: in the result of requestOptions(opts) every key set by some layer is
\* present and nothing else; its value is the construction-time default's if
\* the defaults set it, else the per-call value if opts set it, else the base
\* template's.
C3_Precedence ==
    lastCall.op = "requestOptions" =>
        LET B == ClaimedTemplate
            O == lastCall.opts
            D == client.requestDefaults
            R == returned.value
        IN  /\ Leaves(R) = Leaves(B) \cup Leaves(O) \cup Leaves(D)
            /\ \A p \in Leaves(R) :
                  At(R, p) = IF p \in Leaves(D) THEN At(D, p)
                             ELSE IF p \in Leaves(O) THEN At(O, p)
                             ELSE At(B, p)

\* C3 witness: the authorization header is set by all three layers and the
\* construction-time default's value is the one returned.
C3_Witness ==
    /\ lastCall.op = "requestOptions"
    /\ <<"headers", "authorization">> \in Leaves(lastCall.opts)
    /\ <<"headers", "authorization">> \in Leaves(client.requestDefaults)
    /\ lastCall.opts["headers"].m["authorization"] = Str("Basic call")
    /\ returned.value["headers"].m["authorization"] = Str("Bearer other")
    /\ returned.value["headers"].m["Accept"] = Str("application/json")
    /\ returned.value["timeout"] = Num("1")

\* ---- C7

\* C7, as stated: every request-issuing invocation reaches the transport
\* exactly once (transport invocations = method invocations, also for a
\* repeated tag), and the request of leagues() carries no query parameters.
C7_Original ==
    /\ Len(requests) = invocations
    /\ (lastCall.op = "leagues" => "qs" \notin DOMAIN LastRequest)

\* C7, amended: transport invocations = method invocations after any sequence
\* of direct-fetch calls (nothing cached, a repeated call is issued again),
\* and leagues() adds no query parameters of its own: its request carries
\* exactly the qs of the construction-time request defaults, and none when
\* the defaults set none.
C7_CallsEqualRequests ==
    /\ Len(requests) = invocations
    /\ (lastCall.op \in DirectOps => thrown = "none" /\ returned.kind = "promise")
    /\ (lastCall.op = "leagues" =>
          IF "qs" \in DOMAIN client.requestDefaults
          THEN LastRequest["qs"] = client.requestDefaults["qs"]
          ELSE "qs" \notin DOMAIN LastRequest)

\* C7 witness: the same method was called twice with the same tag and the
\* transport was handed two identical requests.
C7_Witness ==
    /\ lastCall.op = "playerByTag"
    /\ invocations = 2
    /\ Len(requests) = 2
    /\ requests[1] = requests[2]
    /\ requests[1]["uri"] = Str("https://api.clashofclans.com/v1/players/%23ABC123")

\* ---- C8

\* what C8 says the URI of a tag method is
ClaimedTagUri(op, tag) ==
    Str(BaseUri \o PathTemplate[op][1] \o Join(encodeURIComponent(tag)) \o PathTemplate[op][2])

\* C8, as stated: the requested URI of every identifier-taking method is the
\* base URI, the path template and the percent-encoded tag; '#' is sent as %23.
C8_Original ==
    lastCall.op \in DOMAIN PathTemplate =>
        /\ LastRequest["uri"] = ClaimedTagUri(lastCall.op, lastCall.arg)
        /\ "#" \notin Chars(encodeURIComponent(lastCall.arg))
        /\ (lastCall.arg = HashTag => Join(encodeURIComponent(lastCall.arg)) = "%23ABC123")

\* C8, amended: the URI each identifier-taking method passes to requestOptions
\* is the base URI, the path template and the percent-encoded tag ('#' as
\* %23, never raw); it is the URI requested unless the construction-time
\* request defaults set uri, which then replaces it.
C8_TagUriEncoded ==
    lastCall.op \in DOMAIN PathTemplate =>
        /\ LastRequest["uri"] =
             IF "uri" \in DOMAIN client.requestDefaults
             THEN client.requestDefaults["uri"]
             ELSE ClaimedTagUri(lastCall.op, lastCall.arg)
        /\ "#" \notin Chars(encodeURIComponent(lastCall.arg))
        /\ (lastCall.arg = HashTag => Join(encodeURIComponent(lastCall.arg)) = "%23ABC123")

\* C8 witness: clanLeague('#ABC123') on a client without a uri default.
C8_Witness ==
    /\ lastCall.op = "clanLeague"
    /\ lastCall.arg = HashTag
    /\ "uri" \notin DOMAIN client.requestDefaults
    /\ LastRequest["uri"] =
         Str("https://api.clashofclans.com/v1/clans/%23ABC123/currentwar/leaguegroup")

\* ---- C4

\* the setters of section 4.3 and the query parameter each one writes
RecognizedSetters ==
    [withName |-> "name", withWarFrequency |-> "warFrequency",
     withLocationId |-> "locationId", withMinMembers |-> "minMembers",
     withMaxMembers |-> "maxMembers", withMinClanPoints |-> "minClanPoints",
     withMinClanLevel |-> "minClanLevel", withLimit |-> "limit",
     withAfter |-> "after", withBefore |-> "before"]

Max(S) == CHOOSE x \in S : \A y \in S : y <= x

\* last write wins: each field written by a setter call at one of the
\* positions idx of calls has the input of the last such call
LastWriteAt(calls, idx) ==
    LET fields == {RecognizedSetters[calls[i][1]] : i \in idx}
    IN  [f \in fields |->
            calls[Max({i \in idx : RecognizedSetters[calls[i][1]] = f})][2]]

SetterPositions(calls) == {i \in DOMAIN calls : calls[i][1] # "fetch"}
FetchPositions(calls) == {i \in DOMAIN calls : calls[i][1] = "fetch"}
LastWrite(calls) == LastWriteAt(calls, SetterPositions(calls))

RECURSIVE FetchTotal(_)
FetchTotal(n) ==
    IF n = 0 THEN 0 ELSE Cardinality(FetchPositions(builders[n].calls)) + FetchTotal(n - 1)

\* the query parameters q with the qs of the request defaults merged over them
WithDefaultQs(q) ==
    IF "qs" \in DOMAIN client.requestDefaults
    THEN LET d == client.requestDefaults["qs"].m
         IN  [k \in DOMAIN q \cup DOMAIN d |-> IF k \in DOMAIN d THEN d[k] ELSE q[k]]
    ELSE q

\* C4, as stated: setters issue no request and return their builder; fetch
\* issues one GET to <base>/clans whose query parameters are exactly the last
\* value written to each field that was set.
C4_Original ==
    /\ dslSetters = RecognizedSetters
    /\ Len(requests) = FetchTotal(Len(builders))
    /\ (lastCall.op = "with" =>
          thrown = "none" /\ returned = [kind |-> "builder", ref |-> lastCall.builder])
    /\ (lastCall.op = "clans.fetch" =>
          /\ LastRequest["uri"] = Str(BaseUri \o "/clans")
          /\ LastRequest["qs"] = Obj(LastWrite(builders[lastCall.arg].calls)))

\* C4, amended: setters issue no request and return their builder; fetch
\* issues one GET whose query parameters are the last value written to each
\* field that was set, with the qs of the construction-time request defaults
\* merged over them, to <base>/clans unless those defaults set uri.
C4_LastWriteWins ==
    /\ dslSetters = RecognizedSetters
    /\ Len(requests) = FetchTotal(Len(builders))
    /\ (lastCall.op = "with" =>
          thrown = "none" /\ returned = [kind |-> "builder", ref |-> lastCall.builder])
    /\ (lastCall.op = "clans.fetch" =>
          /\ LastRequest["uri"] =
               IF "uri" \in DOMAIN client.requestDefaults
               THEN client.requestDefaults["uri"]
               ELSE Str(BaseUri \o "/clans")
          /\ LastRequest["qs"] =
               Obj(WithDefaultQs(LastWrite(builders[lastCall.arg].calls))))

\* C4 witness: clans().withMinMembers(10).withMinMembers(20).fetch() sent one
\* request to /clans with minMembers = 20 and nothing else.
C4_Witness ==
    /\ Len(builders) = 1
    /\ builders[1].calls = << <<"withMinMembers", Num("10")>>,
                              <<"withMinMembers", Num("20")>>,
                              <<"fetch", Undefined>> >>
    /\ Len(requests) = 1
    /\ requests[1]["uri"] = Str("https://api.clashofclans.com/v1/clans")
    /\ requests[1]["qs"] = Obj([minMembers |-> Num("20")])

\* ---- C9

\* the setter calls made on a builder since its previous fetch; calls ends
\* with the fetch being answered
SinceLastFetch(calls) ==
    LET earlier == FetchPositions(calls) \ {Len(calls)}
        from == IF earlier = {} THEN 0 ELSE Max(earlier)
    IN  {i \in SetterPositions(calls) : i > from}

\* C9, as stated: a fetch sends only what was set on its own builder, and
\* nothing that was set before an earlier fetch of that builder.
C9_Original ==
    lastCall.op = "clans.fetch" =>
        LET calls == builders[lastCall.arg].calls
        IN  LastRequest["qs"] = Obj(WithDefaultQs(LastWriteAt(calls, SinceLastFetch(calls))))

\* C9, amended: each builder's mapping is the last writes of the setters
\* called on that builder alone, whatever was done with other builders; a
\* fetch sends that mapping and keeps it, so a later fetch on the same
\* builder sends the filters set before the earlier fetch again.
C9_BuilderScoped ==
    /\ \A b \in DOMAIN builders : builders[b].qs = LastWrite(builders[b].calls)
    /\ (lastCall.op = "clans.fetch" =>
          LastRequest["qs"] = Obj(WithDefaultQs(builders[lastCall.arg].qs)))

\* C9 witness: two builders, set and fetched in turn; each request carries
\* only its own builder's filter.
C9_Witness ==
    /\ Len(builders) = 2
    /\ builders[1].calls = << <<"withMinMembers", Num("10")>>, <<"fetch", Undefined>> >>
    /\ builders[2].calls = << <<"withName", Str("abc")>>, <<"fetch", Undefined>> >>
    /\ Len(requests) = 2
    /\ requests[1]["qs"] = Obj([minMembers |-> Num("10")])
    /\ requests[2]["qs"] = Obj([name |-> Str("abc")])

\* ---- C5, C6, C10

IsChain(sels) == lastCall.op = "locations.withId" /\ lastCall.sels \in sels

LocationUri(rest) ==
    Str(BaseUri \o "/locations/" \o Join(encodeURIComponent(lastCall.locId)) \o rest)

\* C5: locations().withId(id).byPlayer().fetch() and ..byClan().fetch() do
\* not throw and issue one request, to <base>/locations/<id>/rankings/players
\* and <base>/locations/<id>/rankings/clans.
C5_Claim ==
    IsChain({<<"players">>, <<"clans">>}) =>
        /\ thrown = "none"
        /\ returned.kind = "promise"
        /\ LastRequest = requestOptions(client,
             Map1("uri", LocationUri("/rankings/" \o lastCall.sels[1])))

\* C6: locations().fetch() issues a GET to <base>/locations, and the fetch()
\* of the object withId(id) returns issues a GET to <base>/locations/<id>,
\* with the client's request options.
C6_Claim ==
    /\ (lastCall.op = "locations.fetch" =>
          LastRequest = requestOptions(client, Map1("uri", Str(BaseUri \o "/locations"))))
    /\ (IsChain({<<>>}) =>
          /\ thrown = "none"
          /\ returned.kind = "promise"
          /\ LastRequest = requestOptions(client, Map1("uri", LocationUri(""))))

\* C10: when two selections are made on one withId result before the fetch,
\* the request goes to the ranking selected last.
C10_Claim ==
    IsChain({<<"clans", "players">>, <<"players", "clans">>}) =>
        /\ thrown = "none"
        /\ invocations > 0
        /\ LastRequest = requestOptions(client,
             Map1("uri", LocationUri("/rankings/" \o lastCall.sels[Len(lastCall.sels)])))

\* ------------------------------------------------------- specifications

DirectNext ==
    \/ \E u \in UriArgs, t \in TokenArgs, r \in RequestArgs : Construct(u, t, r)
    \/ \E tag \in Tags : ClanByTag(tag)
    \/ \E tag \in Tags : ClanMembersByTag(tag)
    \/ \E tag \in Tags : ClanWarlogByTag(tag)
    \/ \E tag \in Tags : ClanCurrentWarByTag(tag)
    \/ \E tag \in Tags : ClanLeague(tag)
    \/ \E tag \in Tags : ClanLeagueWars(tag)
    \/ \E tag \in Tags : PlayerByTag(tag)
    \/ Leagues

SpecDirect == Init /\ [][DirectNext]_vars

SetterInputs == { <<"withMinMembers", Num("10")>>, <<"withMinMembers", Num("20")>>,
                  <<"withName", Str("abc")>> }

LocIds == { <<"L","1">>, <<"3","2","#">> }
Selections == { <<>>, <<"clans">>, <<"players">>, <<"clans","players">>, <<"players","clans">> }

ClansNext ==
    \/ \E r \in {Undefined, QsDefault, UriDefault} : Construct(Undefined, Str("tokA"), r)
    \/ Clans
    \/ \E b \in 1..MaxBuilders, c \in SetterInputs : With(b, c[1], c[2])
    \/ \E b \in 1..MaxBuilders : ClansFetch(b)

SpecClans == Init /\ [][ClansNext]_vars

LocationsNext ==
    \/ \E u \in UriArgs, t \in TokenArgs, r \in RequestArgs : Construct(u, t, r)
    \/ LocationsFetch
    \/ \E id \in LocIds, sels \in Selections : LocationChain(id, sels)

SpecLocations == Init /\ [][LocationsNext]_vars

\* the per-call options requestOptions is called with directly
OptsArgs ==
    { EmptyMap,
      Map1("uri", Str("http://call")),
      Map1("json", Bool("false")),
      Map1("headers", Obj(Map1("Accept", Str("text/plain")))),
      Map2("headers", Obj(Map1("authorization", Str("Basic call"))), "timeout", Num("1")),
      Map2("uri", Str("http://call"),
           "qs", Obj(Map2("minMembers", Num("10"), "name", Str("abc")))) }

OptionsNext ==
    \/ \E u \in UriArgs, t \in TokenArgs, r \in RequestArgs : Construct(u, t, r)
    \/ \E o \in OptsArgs : RequestOptions(o)

SpecOptions == Init /\ [][OptionsNext]_vars

AuthNext ==
    \/ \E u \in UriArgs, t \in TokenArgs, r \in RequestArgs : Construct(u, t, r)
    \/ ClanByTag(HashTag)
    \/ ClanMembersByTag(HashTag)
    \/ ClanWarlogByTag(HashTag)
    \/ ClanCurrentWarByTag(HashTag)
    \/ ClanLeague(HashTag)
    \/ ClanLeagueWars(HashTag)
    \/ PlayerByTag(HashTag)
    \/ Leagues
    \/ Clans
    \/ \E b \in 1..MaxBuilders : ClansFetch(b)
    \/ LocationsFetch
    \/ LocationChain(<<"L","1">>, <<"players">>)

SpecAuth == Init /\ [][AuthNext]_vars

====
